---- MODULE Spec2Model ----
(***************************************************************************)
(* The plugin registry of ckan/lib/plugins.py: the module-level tables     *)
(* that map dataset ("package") and group type-strings to IDatasetForm /   *)
(* IGroupForm plugin instances, their fallback slots, and the functions    *)
(* that register, reset and look them up.                                  *)
(*                                                                         *)
(* Objects are records.  An extension plugin carries the attributes the    *)
(* registry reads (is_fallback(), package_types() / group_types(), the     *)
(* class it is built from, group_controller(), is_organization); an        *)
(* instance of a Default*Form class carries its class and an object id     *)
(* that differs from the id of every instance still referenced, so that a  *)
(* newly constructed instance is never an object somebody already holds.   *)
(***************************************************************************)
EXTENDS Integers, Sequences, FiniteSets, TLC

\* Most plugins that implement IDatasetForm / IGroupForm in one process.
MaxPlugins == 2

VARIABLES
    package_impls,                 \* plugins.PluginImplementations(IDatasetForm)
    group_impls,                   \* plugins.PluginImplementations(IGroupForm)
    _package_plugins,              \* package-type string -> IDatasetForm instance
    _default_package_plugin,       \* the dataset fallback
    _group_plugins,                \* group-type string -> IGroupForm instance
    _default_group_plugin,         \* the group fallback
    _default_organization_plugin,  \* the organization fallback
    _group_controllers,            \* group-type string -> controller name
    _group_blueprints,             \* group-type string -> blueprint
    writer,                        \* where the thread that writes the registry is
    c,                             \* the request global: attribute -> value
    context,                       \* the context dict of the request
    last                           \* the last call: its name, argument, result

registry == <<_package_plugins, _default_package_plugin, _group_plugins,
              _default_group_plugin, _default_organization_plugin,
              _group_controllers>>
package_axis == <<_package_plugins, _default_package_plugin>>
group_axis == <<_group_plugins, _default_group_plugin,
                _default_organization_plugin, _group_controllers>>
request == <<c, context>>
vars == <<package_impls, group_impls, _package_plugins, _default_package_plugin,
          _group_plugins, _default_group_plugin, _default_organization_plugin,
          _group_controllers, _group_blueprints, writer, c, context, last>>

----------------------------------------------------------------------------
(* Values *)

\* Python's None where an object is expected.
None == [base |-> "NoneType"]
\* Python's None where a string is expected (a type argument, a controller name).
NoneStr == "None"
\* An empty dict.
EmptyDict == << >>

\* The thread that writes the registry is in none of its functions.
Idle == [at |-> "idle"]

\* Outcomes of a call.
Returned == "returned"
MultipleFallback == "ValueError: More than one fallback"
Duplicate == "ValueError: An existing form is already associated"

DefaultClasses == {"DefaultDatasetForm", "DefaultGroupForm", "DefaultOrganizationForm"}

\* class DefaultOrganizationForm(DefaultGroupForm)
Superclasses(cls) ==
    IF cls = "DefaultOrganizationForm"
    THEN {"DefaultOrganizationForm", "DefaultGroupForm", "object"}
    ELSE {cls, "object"}

\* isinstance(obj, cls)
isinstance(obj, cls) == cls \in Superclasses(obj.base)

\* An instance of a Default*Form class, as an object.
Instance(cls, n) == [base |-> cls, oid |-> n]

\* The objects something still refers to: the fallback slots and the value the
\* last call handed to its caller.  (The tables hold plugins only.)
Live ==
    {_default_package_plugin, _default_group_plugin, _default_organization_plugin}
        \cup (IF last.op \in {"lookup_package_plugin", "lookup_group_plugin"}
              THEN {last.ret} ELSE {})

\* cls(): a new object, different from every object still referred to.
NewInstance(cls) ==
    LET n == CHOOSE n \in 1..(Cardinality(Live) + 1) :
                 /\ Instance(cls, n) \notin Live
                 /\ \A m \in 1..(n - 1) : Instance(cls, m) \in Live
    IN  Instance(cls, n)

\* An object that a plugin (an extension) supplied, not one the registry built.
IsExtension(obj) == "is_fallback" \in DOMAIN obj

----------------------------------------------------------------------------
(* The plugins a process may have loaded *)

PackageTypes == {"dataset", "experiment"}
GroupTypes == {"organization", "team"}

\* Lists of at most two different type-strings.
TypeLists(types) ==
    {<< >>} \cup {<<t>> : t \in types}
            \cup {<<t, u>> : <<t, u>> \in {p \in types \X types : p[1] # p[2]}}

\* What an IDatasetForm plugin is, as far as the registry can tell.
PackagePluginAttrs ==
    [base : {"object", "DefaultDatasetForm"},
     is_fallback : BOOLEAN,
     package_types : TypeLists(PackageTypes)]

\* The i-th loaded IDatasetForm plugin with attributes a.
PackagePlugin(i, a) ==
    [iface |-> "IDatasetForm", id |-> i, base |-> a.base,
     is_fallback |-> a.is_fallback, package_types |-> a.package_types]

PackageImplLists(n) ==
    {[i \in 1..n |-> PackagePlugin(i, a[i])] : a \in [1..n -> PackagePluginAttrs]}

\* What an IGroupForm plugin is, as far as the registry can tell.  A plugin
\* built from DefaultGroupForm or DefaultOrganizationForm inherits that class's
\* group_controller(); one built from object has none.  is_organization is
\* "unset" when the plugin has no such attribute.  The registry uses the
\* attribute of a fallback plugin only, and it matters only where it says
\* something else than the controller name does: the other plugins are left
\* without it.  A plugin declares at most one group type.
GroupPluginAttrs ==
    {a \in [base : {"object", "DefaultGroupForm", "DefaultOrganizationForm"},
            is_fallback : BOOLEAN,
            group_types : {<< >>} \cup {<<t>> : t \in GroupTypes},
            is_organization : {"unset", "True", "False"}] :
        \/ a.is_organization = "unset"
        \/ /\ a.is_fallback
           /\ (a.is_organization = "True") # (a.base = "DefaultOrganizationForm")}

\* The i-th loaded IGroupForm plugin with attributes a.
GroupPlugin(i, a) ==
    LET common == [iface |-> "IGroupForm", id |-> i, base |-> a.base,
                   is_fallback |-> a.is_fallback, group_types |-> a.group_types]
    IN  IF a.is_organization = "unset" THEN common
        ELSE [is_organization |-> (a.is_organization = "True")] @@ common

GroupImplLists(n) ==
    {[i \in 1..n |-> GroupPlugin(i, a[i])] : a \in [1..n -> GroupPluginAttrs]}

----------------------------------------------------------------------------
(* Dataset axis *)

\* RegisterPackageTypes without the "package_type in _package_plugins" test:
\* the last plugin to declare a type owns it.
RECURSIVE RegisterPackageTypes_LastWriterWins(_, _, _)
RegisterPackageTypes_LastWriterWins(reg, plugin, i) ==
    IF i > Len(plugin.package_types) THEN reg
    ELSE RegisterPackageTypes_LastWriterWins(
             [reg EXCEPT !.package_plugins =
                             (plugin.package_types[i] :> plugin) @@ @],
             plugin, i + 1)

\* for package_type in plugin.package_types(): ... from the i-th type on
RECURSIVE RegisterPackageTypes(_, _, _)
RegisterPackageTypes(reg, plugin, i) ==
    IF i > Len(plugin.package_types) THEN reg
    ELSE LET package_type == plugin.package_types[i] IN
         IF package_type \in DOMAIN reg.package_plugins
         THEN [reg EXCEPT !.raised = Duplicate]
         ELSE RegisterPackageTypes(
                  [reg EXCEPT !.package_plugins = (package_type :> plugin) @@ @],
                  plugin, i + 1)

\* The body of the loop over the IDatasetForm plugins, for one plugin.
RegisterPackagePlugin(reg, plugin) ==
    IF plugin.is_fallback
    THEN IF /\ reg.default_package_plugin # None
            /\ ~isinstance(reg.default_package_plugin, "DefaultDatasetForm")
         THEN [reg EXCEPT !.raised = MultipleFallback]
         ELSE RegisterPackageTypes(
                  [reg EXCEPT !.default_package_plugin = plugin], plugin, 1)
    ELSE RegisterPackageTypes(reg, plugin, 1)

\* for plugin in plugins.PluginImplementations(plugins.IDatasetForm): ...
\* from the k-th plugin on; a raise ends the loop.
RECURSIVE RegisterPackageLoop(_, _, _)
RegisterPackageLoop(reg, impls, k) ==
    IF k > Len(impls) \/ reg.raised # Returned THEN reg
    ELSE RegisterPackageLoop(RegisterPackagePlugin(reg, impls[k]), impls, k + 1)

\* The registry's dataset axis as a value the loop above works on.
PackageReg ==
    [package_plugins |-> _package_plugins,
     default_package_plugin |-> _default_package_plugin,
     raised |-> Returned]

Call(op, arg, ret, raised) == [op |-> op, arg |-> arg, ret |-> ret, raised |-> raised]

\* reset_package_plugins that unsets the fallback and keeps the table.
reset_package_plugins_KeepsTable ==
    /\ _default_package_plugin' = None
    /\ last' = Call("reset_package_plugins", NoneStr, None, Returned)
    /\ UNCHANGED <<_group_blueprints, writer, request, package_impls,
                     group_impls, _package_plugins, group_axis>>

reset_package_plugins ==
    /\ _default_package_plugin' = None
    /\ _package_plugins' = EmptyDict
    /\ last' = Call("reset_package_plugins", NoneStr, None, Returned)
    /\ UNCHANGED <<_group_blueprints, writer, request, package_impls,
                     group_impls, group_axis>>

\* SetDefaultPackage without the "is None" test: a new instance at every call.
SetDefaultPackage_AlwaysConstructs(reg) ==
    [reg EXCEPT !.default_package_plugin = NewInstance("DefaultDatasetForm")]

\* The body of set_default_package_plugin on a dataset axis value.
SetDefaultPackage(reg) ==
    IF reg.default_package_plugin = None
    THEN [reg EXCEPT !.default_package_plugin = NewInstance("DefaultDatasetForm")]
    ELSE reg

\* The dataset axis takes the values of reg.
PackageAxisBecomes(reg) ==
    /\ _package_plugins' = reg.package_plugins
    /\ _default_package_plugin' = reg.default_package_plugin

set_default_package_plugin ==
    /\ PackageAxisBecomes(SetDefaultPackage(PackageReg))
    /\ last' = Call("set_default_package_plugin", NoneStr, None, Returned)
    /\ UNCHANGED <<_group_blueprints, writer, request, package_impls,
                     group_impls, group_axis>>

\* RegisterPackagePlugins without the closing set_default_package_plugin().
RegisterPackagePlugins_NoDefault(reg, impls) == RegisterPackageLoop(reg, impls, 1)

\* register_package_plugins on a dataset axis value: the loop, then, unless
\* the loop raised, set_default_package_plugin().
RegisterPackagePlugins(reg, impls) ==
    LET looped == RegisterPackageLoop(reg, impls, 1)
    IN  IF looped.raised = Returned THEN SetDefaultPackage(looped) ELSE looped

register_package_plugins ==
    LET reg == RegisterPackagePlugins(PackageReg, package_impls)
    IN  /\ PackageAxisBecomes(reg)
        /\ last' = Call("register_package_plugins", NoneStr, None, reg.raised)
        /\ UNCHANGED <<_group_blueprints, writer, request, package_impls,
                     group_impls, group_axis>>

\* LookupPackagePlugin that finds the first registered plugin whatever the type.
LookupPackagePlugin_AnyType(package_type) ==
    IF package_type = NoneStr \/ _package_plugins = EmptyDict
    THEN _default_package_plugin
    ELSE _package_plugins[CHOOSE t \in DOMAIN _package_plugins : TRUE]

\* What lookup_package_plugin(package_type) returns.
LookupPackagePlugin(package_type) ==
    IF package_type = NoneStr THEN _default_package_plugin
    ELSE IF package_type \in DOMAIN _package_plugins
         THEN _package_plugins[package_type]
         ELSE _default_package_plugin

\* The arguments the model calls lookup_package_plugin with.
PackageTypeArgs == PackageTypes \cup {"unknown", NoneStr}

\* lookup_package_plugin that builds the default form when it finds the
\* fallback unset.
lookup_package_plugin_InstallsFallback ==
    \E package_type \in PackageTypeArgs :
        LET reg == SetDefaultPackage(PackageReg)
        IN  /\ PackageAxisBecomes(reg)
            /\ last' = Call("lookup_package_plugin", package_type,
                            IF /\ package_type # NoneStr
                               /\ package_type \in DOMAIN _package_plugins
                            THEN _package_plugins[package_type]
                            ELSE reg.default_package_plugin,
                            Returned)
            /\ UNCHANGED <<_group_blueprints, writer, request, package_impls,
                           group_impls, group_axis>>

lookup_package_plugin ==
    \E package_type \in PackageTypeArgs :
        /\ last' = Call("lookup_package_plugin", package_type,
                        LookupPackagePlugin(package_type), Returned)
        /\ UNCHANGED <<_group_blueprints, writer, request, package_impls,
                     group_impls, registry>>

----------------------------------------------------------------------------
(* The dataset axis one write at a time: a reader beside the writer *)

\* The functions take no lock, so a thread that calls a lookup runs between
\* any two statements of a thread that is in reset_package_plugins or
\* register_package_plugins.  The writer is at one of
\*   [at |-> "reset"]        after _default_package_plugin = None
\*   [at |-> "plugin", k]    at the head of the loop, the k-th plugin next
\*   [at |-> "types", k, i]  at the head of the inner loop, the i-th type next
\*   [at |-> "set_default"]  after the loop, before set_default_package_plugin()
\* and carries the dataset axis as it was when the call began.

\* The outcome of a call that has not returned yet.
Running == "running"

\* The dataset axis is left alone.
PackageAxisUnchanged == UNCHANGED <<_package_plugins, _default_package_plugin>>

\* What a step of the writer leaves alone besides the dataset axis.
WriterFrame ==
    UNCHANGED <<_group_blueprints, request, package_impls, group_impls, group_axis>>

\* reset_package_plugins, first assignment.
begin_reset_package_plugins ==
    /\ writer = Idle
    /\ _default_package_plugin' = None
    /\ UNCHANGED _package_plugins
    /\ writer' = [at |-> "reset", before |-> PackageReg]
    /\ last' = Call("reset_package_plugins", NoneStr, None, Running)
    /\ WriterFrame

\* reset_package_plugins, second assignment and return.
end_reset_package_plugins ==
    /\ writer.at = "reset"
    /\ _package_plugins' = EmptyDict
    /\ UNCHANGED _default_package_plugin
    /\ writer' = Idle
    /\ last' = Call("reset_package_plugins", NoneStr, None, Returned)
    /\ WriterFrame

\* register_package_plugins is entered.
begin_register_package_plugins ==
    /\ writer = Idle
    /\ PackageAxisUnchanged
    /\ writer' = [at |-> "plugin", k |-> 1, before |-> PackageReg]
    /\ last' = Call("register_package_plugins", NoneStr, None, Running)
    /\ WriterFrame

\* The head of the loop over the plugins and the fallback claim of the next
\* plugin: the multiple-fallback error, or the plugin in the fallback slot.
register_package_fallback ==
    /\ writer.at = "plugin"
    /\ WriterFrame
    /\ IF writer.k > Len(package_impls)
       THEN /\ PackageAxisUnchanged
            /\ writer' = [at |-> "set_default", before |-> writer.before]
            /\ last' = Call("register_package_plugins", NoneStr, None, Running)
       ELSE LET plugin == package_impls[writer.k] IN
            IF /\ plugin.is_fallback
               /\ _default_package_plugin # None
               /\ ~isinstance(_default_package_plugin, "DefaultDatasetForm")
            THEN /\ PackageAxisUnchanged
                 /\ writer' = Idle
                 /\ last' = Call("register_package_plugins", NoneStr, None,
                                 MultipleFallback)
            ELSE /\ _default_package_plugin' =
                        IF plugin.is_fallback THEN plugin
                        ELSE _default_package_plugin
                 /\ UNCHANGED _package_plugins
                 /\ writer' = [at |-> "types", k |-> writer.k, i |-> 1,
                               before |-> writer.before]
                 /\ last' = Call("register_package_plugins", NoneStr, None,
                                 Running)

\* The head of the loop over the types of the plugin and the next type: the
\* duplicate error, or the row of the type.
register_package_type ==
    /\ writer.at = "types"
    /\ WriterFrame
    /\ UNCHANGED _default_package_plugin
    /\ LET plugin == package_impls[writer.k] IN
       IF writer.i > Len(plugin.package_types)
       THEN /\ UNCHANGED _package_plugins
            /\ writer' = [at |-> "plugin", k |-> writer.k + 1,
                          before |-> writer.before]
            /\ last' = Call("register_package_plugins", NoneStr, None, Running)
       ELSE LET package_type == plugin.package_types[writer.i] IN
            IF package_type \in DOMAIN _package_plugins
            THEN /\ UNCHANGED _package_plugins
                 /\ writer' = Idle
                 /\ last' = Call("register_package_plugins", NoneStr, None,
                                 Duplicate)
            ELSE /\ _package_plugins' = (package_type :> plugin) @@ _package_plugins
                 /\ writer' = [writer EXCEPT !.i = @ + 1]
                 /\ last' = Call("register_package_plugins", NoneStr, None,
                                 Running)

\* set_default_package_plugin() at the end of register_package_plugins, and
\* the return.
end_register_package_plugins ==
    /\ writer.at = "set_default"
    /\ PackageAxisBecomes(SetDefaultPackage(PackageReg))
    /\ writer' = Idle
    /\ last' = Call("register_package_plugins", NoneStr, None, Returned)
    /\ WriterFrame

----------------------------------------------------------------------------
(* Group axis *)

\* hasattr(obj, name)
hasattr(obj, name) == name \in DOMAIN obj

\* try: plugin.group_controller()  except AttributeError: 'group'
\* DefaultGroupForm.group_controller and DefaultOrganizationForm.group_controller
\* are the only definitions of the method a plugin can have here.
GroupControllerOf(plugin) ==
    IF isinstance(plugin, "DefaultOrganizationForm") THEN "organization"
    ELSE IF isinstance(plugin, "DefaultGroupForm") THEN "group"
    ELSE "group"

\* The is_organization flag register_group_plugins works out for a plugin.
IsOrganizationOf(plugin) ==
    IF hasattr(plugin, "is_organization") THEN plugin.is_organization
    ELSE GroupControllerOf(plugin) = "organization"

\* RegisterGroupTypes without the "group_type in _group_plugins" test: the last
\* plugin to declare a type owns it and names its controller.
RECURSIVE RegisterGroupTypes_LastWriterWins(_, _, _)
RegisterGroupTypes_LastWriterWins(reg, plugin, i) ==
    IF i > Len(plugin.group_types) THEN reg
    ELSE RegisterGroupTypes_LastWriterWins(
             [reg EXCEPT
                 !.group_plugins = (plugin.group_types[i] :> plugin) @@ @,
                 !.group_controllers =
                     (plugin.group_types[i] :> GroupControllerOf(plugin)) @@ @],
             plugin, i + 1)

\* RegisterGroupTypes that records the controller name of the plugin before it
\* tests whether the type-string has an owner.
RECURSIVE RegisterGroupTypes_ControllerFirst(_, _, _)
RegisterGroupTypes_ControllerFirst(reg, plugin, i) ==
    IF i > Len(plugin.group_types) THEN reg
    ELSE LET group_type == plugin.group_types[i]
             named == [reg EXCEPT !.group_controllers =
                          (group_type :> GroupControllerOf(plugin)) @@ @]
         IN  IF group_type \in DOMAIN reg.group_plugins
             THEN [named EXCEPT !.raised = Duplicate]
             ELSE RegisterGroupTypes_ControllerFirst(
                      [named EXCEPT !.group_plugins = (group_type :> plugin) @@ @],
                      plugin, i + 1)

\* for group_type in plugin.group_types(): ... from the i-th type on
RECURSIVE RegisterGroupTypes(_, _, _)
RegisterGroupTypes(reg, plugin, i) ==
    IF i > Len(plugin.group_types) THEN reg
    ELSE LET group_type == plugin.group_types[i] IN
         IF group_type \in DOMAIN reg.group_plugins
         THEN [reg EXCEPT !.raised = Duplicate]
         ELSE RegisterGroupTypes(
                  [reg EXCEPT
                      !.group_plugins = (group_type :> plugin) @@ @,
                      !.group_controllers =
                          (group_type :> GroupControllerOf(plugin)) @@ @],
                  plugin, i + 1)

\* RegisterGroupFallback that chooses the slot by the controller name alone.
RegisterGroupFallback_ByController(reg, plugin) ==
    IF GroupControllerOf(plugin) = "organization"
    THEN IF /\ reg.default_organization_plugin # None
            /\ ~isinstance(reg.default_organization_plugin, "DefaultOrganizationForm")
         THEN [reg EXCEPT !.raised = MultipleFallback]
         ELSE [reg EXCEPT !.default_organization_plugin = plugin]
    ELSE IF /\ reg.default_group_plugin # None
            /\ ~isinstance(reg.default_group_plugin, "DefaultGroupForm")
         THEN [reg EXCEPT !.raised = MultipleFallback]
         ELSE [reg EXCEPT !.default_group_plugin = plugin]

\* if plugin.is_fallback(): ... the fallback slot the plugin claims.
RegisterGroupFallback(reg, plugin) ==
    IF IsOrganizationOf(plugin)
    THEN IF /\ reg.default_organization_plugin # None
            /\ ~isinstance(reg.default_organization_plugin, "DefaultOrganizationForm")
         THEN [reg EXCEPT !.raised = MultipleFallback]
         ELSE [reg EXCEPT !.default_organization_plugin = plugin]
    ELSE IF /\ reg.default_group_plugin # None
            /\ ~isinstance(reg.default_group_plugin, "DefaultGroupForm")
         THEN [reg EXCEPT !.raised = MultipleFallback]
         ELSE [reg EXCEPT !.default_group_plugin = plugin]

\* The body of the loop over the IGroupForm plugins, for one plugin.
RegisterGroupPlugin(reg, plugin) ==
    LET claimed == IF plugin.is_fallback THEN RegisterGroupFallback(reg, plugin)
                   ELSE reg
    IN  IF claimed.raised # Returned THEN claimed
        ELSE RegisterGroupTypes(claimed, plugin, 1)

\* for plugin in plugins.PluginImplementations(plugins.IGroupForm): ...
\* from the k-th plugin on; a raise ends the loop.
RECURSIVE RegisterGroupLoop(_, _, _)
RegisterGroupLoop(reg, impls, k) ==
    IF k > Len(impls) \/ reg.raised # Returned THEN reg
    ELSE RegisterGroupLoop(RegisterGroupPlugin(reg, impls[k]), impls, k + 1)

\* The registry's group axis as a value the loop above works on.
GroupReg ==
    [group_plugins |-> _group_plugins,
     default_group_plugin |-> _default_group_plugin,
     default_organization_plugin |-> _default_organization_plugin,
     group_controllers |-> _group_controllers,
     raised |-> Returned]

\* SetDefaultGroup without the default controller names.
SetDefaultGroup_NoControllers(reg) ==
    [reg EXCEPT
        !.default_group_plugin =
            IF @ = None THEN NewInstance("DefaultGroupForm") ELSE @,
        !.default_organization_plugin =
            IF @ = None THEN NewInstance("DefaultOrganizationForm") ELSE @]

\* SetDefaultGroup without the "not in _group_controllers" tests: the default
\* names replace whatever the two types had.
SetDefaultGroup_OverwritesControllers(reg) ==
    [reg EXCEPT
        !.default_group_plugin =
            IF @ = None THEN NewInstance("DefaultGroupForm") ELSE @,
        !.default_organization_plugin =
            IF @ = None THEN NewInstance("DefaultOrganizationForm") ELSE @,
        !.group_controllers =
            ("group" :> "group") @@ ("organization" :> "organization") @@ @]

\* The body of set_default_group_plugin on a group axis value.
SetDefaultGroup(reg) ==
    [reg EXCEPT
        !.default_group_plugin =
            IF @ = None THEN NewInstance("DefaultGroupForm") ELSE @,
        !.default_organization_plugin =
            IF @ = None THEN NewInstance("DefaultOrganizationForm") ELSE @,
        !.group_controllers =
            @ @@ ("group" :> "group") @@ ("organization" :> "organization")]

\* The group axis takes the values of reg.
GroupAxisBecomes(reg) ==
    /\ _group_plugins' = reg.group_plugins
    /\ _default_group_plugin' = reg.default_group_plugin
    /\ _default_organization_plugin' = reg.default_organization_plugin
    /\ _group_controllers' = reg.group_controllers

\* reset_group_plugins that forgets the controller table.
reset_group_plugins_KeepsControllers ==
    /\ _default_group_plugin' = None
    /\ _default_organization_plugin' = None
    /\ _group_plugins' = EmptyDict
    /\ last' = Call("reset_group_plugins", NoneStr, None, Returned)
    /\ UNCHANGED <<_group_blueprints, writer, request, package_impls,
                     group_impls, package_axis, _group_controllers>>

reset_group_plugins ==
    /\ _default_group_plugin' = None
    /\ _default_organization_plugin' = None
    /\ _group_plugins' = EmptyDict
    /\ _group_controllers' = EmptyDict
    /\ last' = Call("reset_group_plugins", NoneStr, None, Returned)
    /\ UNCHANGED <<_group_blueprints, writer, request, package_impls,
                     group_impls, package_axis>>

set_default_group_plugin ==
    /\ GroupAxisBecomes(SetDefaultGroup(GroupReg))
    /\ last' = Call("set_default_group_plugin", NoneStr, None, Returned)
    /\ UNCHANGED <<_group_blueprints, writer, request, package_impls,
                     group_impls, package_axis>>

\* register_group_plugins on a group axis value: the loop, then, unless the
\* loop raised, set_default_group_plugin().
RegisterGroupPlugins(reg, impls) ==
    LET looped == RegisterGroupLoop(reg, impls, 1)
    IN  IF looped.raised = Returned THEN SetDefaultGroup(looped) ELSE looped

register_group_plugins ==
    LET reg == RegisterGroupPlugins(GroupReg, group_impls)
    IN  /\ GroupAxisBecomes(reg)
        /\ last' = Call("register_group_plugins", NoneStr, None, reg.raised)
        /\ UNCHANGED <<_group_blueprints, writer, request, package_impls,
                     group_impls, package_axis>>

\* LookupGroupPlugin without the 'organization' case: one fallback for all.
LookupGroupPlugin_OneFallback(group_type) ==
    IF group_type # NoneStr /\ group_type \in DOMAIN _group_plugins
    THEN _group_plugins[group_type]
    ELSE _default_group_plugin

\* LookupGroupPlugin with the two fallbacks the wrong way round.
LookupGroupPlugin_FallbacksSwapped(group_type) ==
    IF group_type = NoneStr THEN _default_group_plugin
    ELSE IF group_type \in DOMAIN _group_plugins
         THEN _group_plugins[group_type]
         ELSE IF group_type = "organization"
              THEN _default_group_plugin
              ELSE _default_organization_plugin

\* What lookup_group_plugin(group_type) returns.
LookupGroupPlugin(group_type) ==
    IF group_type = NoneStr THEN _default_group_plugin
    ELSE IF group_type \in DOMAIN _group_plugins
         THEN _group_plugins[group_type]
         ELSE IF group_type = "organization"
              THEN _default_organization_plugin
              ELSE _default_group_plugin

\* What lookup_group_controller(group_type) returns: dict.get, None when absent.
LookupGroupController(group_type) ==
    IF group_type \in DOMAIN _group_controllers
    THEN _group_controllers[group_type]
    ELSE NoneStr

\* The arguments the model calls lookup_group_plugin / _controller with.
GroupTypeArgs == GroupTypes \cup {"group", NoneStr}

lookup_group_plugin ==
    \E group_type \in GroupTypeArgs :
        /\ last' = Call("lookup_group_plugin", group_type,
                        LookupGroupPlugin(group_type), Returned)
        /\ UNCHANGED <<_group_blueprints, writer, request, package_impls,
                     group_impls, registry>>

\* What lookup_group_blueprints(group_type) returns: dict.get, None when absent.
LookupGroupBlueprints(group_type) ==
    IF group_type \in DOMAIN _group_blueprints
    THEN _group_blueprints[group_type]
    ELSE NoneStr

lookup_group_blueprints ==
    \E group_type \in GroupTypeArgs :
        /\ last' = Call("lookup_group_blueprints", group_type,
                        LookupGroupBlueprints(group_type), Returned)
        /\ UNCHANGED <<_group_blueprints, writer, request, package_impls,
                       group_impls, registry>>

lookup_group_controller ==
    \E group_type \in GroupTypeArgs :
        /\ last' = Call("lookup_group_controller", group_type,
                        LookupGroupController(group_type), Returned)
        /\ UNCHANGED <<_group_blueprints, writer, request, package_impls,
                     group_impls, registry>>

----------------------------------------------------------------------------
(* Permission labels: DefaultPermissionLabels *)

UserIds == {"u1", "u2"}
OrgIds == {"o1", "o2"}
DatasetIds == {"d1", "d2"}
DatasetStates == {"active", "draft", "deleted"}

\* u'prefix-%s' % value; None is formatted as "None".
Label(prefix, value) == prefix \o "-" \o value

\* The elements of a list.
Elements(list) == {list[i] : i \in 1..Len(list)}

\* A dataset object, as far as get_dataset_labels reads it; owner_org and
\* creator_user_id may be None.
DatasetObjects ==
    [id : DatasetIds, state : DatasetStates, private : BOOLEAN,
     owner_org : OrgIds \cup {NoneStr}, creator_user_id : UserIds \cup {NoneStr}]

\* A user object, as far as get_user_dataset_labels reads it.
UserObjects == [id : UserIds]

\* What logic.get_action('organization_list_for_user') may answer: a list of
\* organization dicts.
OrganizationLists ==
    {[i \in 1..Len(l) |-> [id |-> l[i]]] : l \in TypeLists(OrgIds)}

\* What logic.get_action('package_collaborator_list_for_user') may answer.
CollaboratorLists ==
    {[i \in 1..Len(l) |-> [package_id |-> l[i]]] : l \in TypeLists(DatasetIds)}

\* What get_user_dataset_labels is called with and what it may read: the user
\* object (None for the anonymous user), the config permission and the two
\* answers of the action layer.
Actors ==
    [user_obj : UserObjects \cup {None},
     allow_dataset_collaborators : BOOLEAN,
     organization_list_for_user : OrganizationLists,
     package_collaborator_list_for_user : CollaboratorLists]

\* GetDatasetLabels that takes every active dataset for a public one.
GetDatasetLabels_IgnoresPrivate(dataset_obj, allow_dataset_collaborators) ==
    IF dataset_obj.state = "active"
    THEN <<"public">>
    ELSE LET labels == IF allow_dataset_collaborators
                       THEN <<Label("collaborator", dataset_obj.id)>>
                       ELSE << >>
         IN  IF dataset_obj.owner_org # NoneStr
             THEN Append(labels, Label("member", dataset_obj.owner_org))
             ELSE Append(labels, Label("creator", dataset_obj.creator_user_id))

\* GetDatasetLabels that gives a public dataset the label of its owner too.
GetDatasetLabels_PublicAndOwner(dataset_obj, allow_dataset_collaborators) ==
    LET labels == IF dataset_obj.state = "active" /\ ~dataset_obj.private
                  THEN <<"public">>
                  ELSE IF allow_dataset_collaborators
                       THEN <<Label("collaborator", dataset_obj.id)>>
                       ELSE << >>
    IN  IF dataset_obj.owner_org # NoneStr
        THEN Append(labels, Label("member", dataset_obj.owner_org))
        ELSE Append(labels, Label("creator", dataset_obj.creator_user_id))

\* GetDatasetLabels that adds the creator label to a dataset with an owner
\* organization as well.
GetDatasetLabels_CreatorAlways(dataset_obj, allow_dataset_collaborators) ==
    IF dataset_obj.state = "active" /\ ~dataset_obj.private
    THEN <<"public">>
    ELSE LET labels == IF allow_dataset_collaborators
                       THEN <<Label("collaborator", dataset_obj.id)>>
                       ELSE << >>
             owned == IF dataset_obj.owner_org # NoneStr
                      THEN Append(labels, Label("member", dataset_obj.owner_org))
                      ELSE labels
         IN  Append(owned, Label("creator", dataset_obj.creator_user_id))

\* get_dataset_labels(dataset_obj), allow_dataset_collaborators being what
\* ckan.authz.check_config_permission answers.
GetDatasetLabels(dataset_obj, allow_dataset_collaborators) ==
    IF dataset_obj.state = "active" /\ ~dataset_obj.private
    THEN <<"public">>
    ELSE LET labels == IF allow_dataset_collaborators
                       THEN <<Label("collaborator", dataset_obj.id)>>
                       ELSE << >>
         IN  IF dataset_obj.owner_org # NoneStr
             THEN Append(labels, Label("member", dataset_obj.owner_org))
             ELSE Append(labels, Label("creator", dataset_obj.creator_user_id))

\* GetUserDatasetLabels that adds the collaborator labels whatever the config.
GetUserDatasetLabels_CollaboratorsAlways(actor) ==
    IF actor.user_obj = None THEN <<"public">>
    ELSE LET orgs == actor.organization_list_for_user
             datasets == actor.package_collaborator_list_for_user
         IN  <<"public", Label("creator", actor.user_obj.id)>>
                 \o [i \in 1..Len(orgs) |-> Label("member", orgs[i].id)]
                 \o [i \in 1..Len(datasets) |->
                        Label("collaborator", datasets[i].package_id)]

\* get_user_dataset_labels(user_obj) for an actor.
GetUserDatasetLabels(actor) ==
    IF actor.user_obj = None THEN <<"public">>
    ELSE LET orgs == actor.organization_list_for_user
             datasets == actor.package_collaborator_list_for_user
             labels == <<"public", Label("creator", actor.user_obj.id)>>
                           \o [i \in 1..Len(orgs) |-> Label("member", orgs[i].id)]
         IN  IF actor.allow_dataset_collaborators
             THEN labels \o [i \in 1..Len(datasets) |->
                                Label("collaborator", datasets[i].package_id)]
             ELSE labels

\* The actions of the action layer get_user_dataset_labels(user_obj) calls.
GetUserDatasetLabelsQueries(actor) ==
    IF actor.user_obj = None THEN {}
    ELSE {"organization_list_for_user"}
             \cup (IF actor.allow_dataset_collaborators
                   THEN {"package_collaborator_list_for_user"} ELSE {})

\* A call of a labels method: as Call, with the action-layer calls it made.
LabelsCall(op, arg, ret, queried) ==
    [op |-> op, arg |-> arg, ret |-> ret, raised |-> Returned, queried |-> queried]

get_dataset_labels ==
    \E dataset_obj \in DatasetObjects : \E allow_dataset_collaborators \in BOOLEAN :
        /\ last' = LabelsCall("get_dataset_labels",
                       [dataset_obj |-> dataset_obj,
                        allow_dataset_collaborators |-> allow_dataset_collaborators],
                       GetDatasetLabels(dataset_obj, allow_dataset_collaborators),
                       {})
        /\ UNCHANGED <<_group_blueprints, writer, request, package_impls,
                     group_impls, registry>>

get_user_dataset_labels ==
    \E actor \in Actors :
        /\ last' = LabelsCall("get_user_dataset_labels", actor,
                       GetUserDatasetLabels(actor),
                       GetUserDatasetLabelsQueries(actor))
        /\ UNCHANGED <<_group_blueprints, writer, request, package_impls,
                     group_impls, registry>>

----------------------------------------------------------------------------
(* DefaultGroupForm.setup_template_variables *)

\* c.user: a user name, '' for the anonymous user.
Users == UserIds \cup {""}
Groups == {"g1", "g2"}

\* What logic.check_access('group_change_state', context) may do.
Passes == "passes"
NotAuthorized == "logic.NotAuthorized"

\* bool(value) of a group value: None and '' are false, a group is true.
Truthy(value) == value \notin {NoneStr, ""}

\* getattr(obj, name, default) and dict.get(name, default)
getattr(obj, name, default) == IF name \in DOMAIN obj THEN obj[name] ELSE default

\* obj.name = value and dict[name] = value
setattr(obj, name, value) == (name :> value) @@ obj

\* SetupTemplateVariables without the except clause: NotAuthorized goes up to
\* the caller.
SetupTemplateVariables_NoExcept(req, is_sysadmin, check_access) ==
    LET c1 == setattr(req.c, "is_sysadmin", is_sysadmin)
        context_group == getattr(req.context, "group", NoneStr)
        group == IF Truthy(context_group) THEN context_group
                 ELSE getattr(c1, "group", "")
    IN  IF Truthy(group)
        THEN LET context1 == IF ~Truthy(context_group)
                             THEN setattr(req.context, "group", group)
                             ELSE req.context
             IN  IF check_access = NotAuthorized
                 THEN [c |-> c1, context |-> context1, raised |-> NotAuthorized]
                 ELSE [c |-> setattr(c1, "auth_for_change_state", TRUE),
                       context |-> context1, raised |-> Returned]
        ELSE [c |-> setattr(c1, "group", ""), context |-> req.context,
              raised |-> Returned]

\* The body of DefaultGroupForm.setup_template_variables(context, data_dict)
\* on the request req, is_sysadmin being what ckan.authz.is_sysadmin(c.user)
\* answers and check_access what logic.check_access does when it is called.
SetupTemplateVariables(req, is_sysadmin, check_access) ==
    LET c1 == setattr(req.c, "is_sysadmin", is_sysadmin)
        context_group == getattr(req.context, "group", NoneStr)
        group == IF Truthy(context_group) THEN context_group
                 ELSE getattr(c1, "group", "")
    IN  IF Truthy(group)
        THEN LET context1 == IF ~Truthy(context_group)
                             THEN setattr(req.context, "group", group)
                             ELSE req.context
             IN  IF check_access = NotAuthorized
                 THEN [c |-> setattr(c1, "auth_for_change_state", FALSE),
                       context |-> context1, raised |-> Returned]
                 ELSE [c |-> setattr(c1, "auth_for_change_state", TRUE),
                       context |-> context1, raised |-> Returned]
        ELSE [c |-> setattr(c1, "group", ""), context |-> req.context,
              raised |-> Returned]

\* A group is available to setup_template_variables: in the context or in
\* the request global.
GroupAvailable ==
    \/ Truthy(getattr(context, "group", NoneStr))
    \/ Truthy(getattr(c, "group", ""))

\* The call; its record keeps what check_access did, None when it was not
\* called.
setup_template_variables ==
    \E is_sysadmin \in BOOLEAN : \E check_access \in {Passes, NotAuthorized} :
        LET req == SetupTemplateVariables([c |-> c, context |-> context],
                                          is_sysadmin, check_access)
        IN  /\ c' = req.c
            /\ context' = req.context
            /\ last' = Call("setup_template_variables",
                            IF GroupAvailable THEN check_access ELSE NoneStr,
                            None, req.raised)
            /\ UNCHANGED <<_group_blueprints, writer, package_impls, group_impls,
                           registry>>

----------------------------------------------------------------------------
(* DatapusherPlugin._submit_to_datapusher *)

\* What the toolkit.get_action(...) calls may raise: task_status_show, which
\* otherwise returns a dict, and datapusher_submit.
ObjectNotFound == [raises |-> "toolkit.ObjectNotFound"]
ValidationError == "toolkit.ValidationError"

\* str.lower() on the format strings of the model.
Lower(str) == IF str = "CSV" THEN "csv" ELSE IF str = "XLS" THEN "xls" ELSE str

\* self.datapusher_formats, as configure() took it from ckan.datapusher.formats.
DatapusherFormats == SUBSET {"csv", "xls"}

\* A resource dict, as far as _submit_to_datapusher reads it; .get() gives
\* None for a key the dict has not.
ResourceDicts ==
    [id : {"r1"},
     format : {NoneStr, "", "csv", "CSV", "XLS", "pdf"},
     url_type : {NoneStr, "upload", "datapusher"}]

\* What task_status_show may do: raise ObjectNotFound or return a task dict,
\* with a state or without one.
TaskStatusShowOutcomes ==
    {ObjectNotFound}
        \cup {[state |-> st] : st \in {"pending", "submitting", "complete", "error"}}
        \cup {[entity_id |-> "r1"]}

\* What datapusher_submit may do.
DatapusherSubmitOutcomes == {Returned, ValidationError}

\* SubmitToDatapusher that does not look at the state of the task.
SubmitToDatapusher_IgnoresPending(resource_dict, formats, task_status_show, datapusher_submit) ==
    LET resource_format == resource_dict.format
        submit == /\ Truthy(resource_format)
                  /\ Lower(resource_format) \in formats
                  /\ resource_dict.url_type # "datapusher"
    IN  IF ~submit THEN [called |-> << >>, raised |-> Returned]
        ELSE [called |-> <<"task_status_show", "datapusher_submit">>,
              raised |-> Returned]

\* The body of _submit_to_datapusher(resource_dict): the actions it calls, in
\* order, and how it ends.  task_status_show and datapusher_submit are what
\* the two actions do when they are called.
SubmitToDatapusher(resource_dict, formats, task_status_show, datapusher_submit) ==
    LET resource_format == resource_dict.format
        submit == /\ Truthy(resource_format)
                  /\ Lower(resource_format) \in formats
                  /\ resource_dict.url_type # "datapusher"
    IN  IF ~submit THEN [called |-> << >>, raised |-> Returned]
        ELSE IF /\ task_status_show # ObjectNotFound
                /\ getattr(task_status_show, "state", NoneStr)
                       \in {"pending", "submitting"}
             THEN [called |-> <<"task_status_show">>, raised |-> Returned]
             ELSE [called |-> <<"task_status_show", "datapusher_submit">>,
                   \* except toolkit.ValidationError: log.critical(e)
                   raised |-> IF datapusher_submit = ValidationError
                              THEN Returned ELSE datapusher_submit]

_submit_to_datapusher ==
    \E resource_dict \in ResourceDicts : \E formats \in DatapusherFormats :
    \E task_status_show \in TaskStatusShowOutcomes :
    \E datapusher_submit \in DatapusherSubmitOutcomes :
        LET run == SubmitToDatapusher(resource_dict, formats, task_status_show,
                                      datapusher_submit)
        IN  /\ last' = [op |-> "_submit_to_datapusher",
                        arg |-> [resource_dict |-> resource_dict,
                                 datapusher_formats |-> formats,
                                 task_status_show |-> task_status_show,
                                 datapusher_submit |-> datapusher_submit],
                        ret |-> None,
                        raised |-> run.raised,
                        queried |-> Elements(run.called)]
            /\ UNCHANGED <<_group_blueprints, writer, request, package_impls,
                           group_impls, registry>>

----------------------------------------------------------------------------
(* Specifications *)

\* The module as imported: empty tables, unset fallbacks.
InitRegistry ==
    /\ _package_plugins = EmptyDict
    /\ _default_package_plugin = None
    /\ _group_plugins = EmptyDict
    /\ _default_group_plugin = None
    /\ _default_organization_plugin = None
    /\ _group_controllers = EmptyDict
    /\ _group_blueprints = EmptyDict
    /\ writer = Idle
    /\ last = Call("import", NoneStr, None, Returned)

\* Outside a request: an empty request global but for the user, no context.
NoRequest ==
    /\ c = ("user" :> "")
    /\ context = EmptyDict

InitPackage ==
    /\ \E n \in 0..MaxPlugins : package_impls \in PackageImplLists(n)
    /\ group_impls = << >>
    /\ InitRegistry
    /\ NoRequest

InitGroup ==
    /\ package_impls = << >>
    /\ \E n \in 0..MaxPlugins : group_impls \in GroupImplLists(n)
    /\ InitRegistry
    /\ NoRequest

InitBoth ==
    /\ \E n \in 0..MaxPlugins : \E m \in 0..(MaxPlugins - n) :
          /\ package_impls \in PackageImplLists(n)
          /\ group_impls \in GroupImplLists(m)
    /\ InitRegistry
    /\ NoRequest

Init == InitPackage \/ InitGroup

NextPackage ==
    \/ reset_package_plugins
    \/ set_default_package_plugin
    \/ register_package_plugins
    \/ lookup_package_plugin

NextGroup ==
    \/ reset_group_plugins
    \/ set_default_group_plugin
    \/ register_group_plugins
    \/ lookup_group_plugin
    \/ lookup_group_controller
    \/ lookup_group_blueprints

\* The functions that write the registry, of both axes.
NextBoth ==
    \/ reset_package_plugins
    \/ set_default_package_plugin
    \/ register_package_plugins
    \/ reset_group_plugins
    \/ set_default_group_plugin
    \/ register_group_plugins

\* One axis at a time: the calls of the axis the process has plugins for.
Next ==
    \/ group_impls = << >> /\ reset_package_plugins
    \/ group_impls = << >> /\ set_default_package_plugin
    \/ group_impls = << >> /\ register_package_plugins
    \/ group_impls = << >> /\ lookup_package_plugin
    \/ package_impls = << >> /\ reset_group_plugins
    \/ package_impls = << >> /\ set_default_group_plugin
    \/ package_impls = << >> /\ register_group_plugins
    \/ package_impls = << >> /\ lookup_group_plugin
    \/ package_impls = << >> /\ lookup_group_controller
    \/ package_impls = << >> /\ lookup_group_blueprints

\* No plugin loaded, nothing registered.
InitLabels ==
    /\ package_impls = << >>
    /\ group_impls = << >>
    /\ InitRegistry
    /\ NoRequest

\* A request that reaches setup_template_variables: the request global has a
\* user ('' for the anonymous user) and perhaps a group, the context perhaps
\* a group.
InitTemplate ==
    /\ package_impls = << >>
    /\ group_impls = << >>
    /\ InitRegistry
    /\ \E user \in Users :
          c \in {("user" :> user)}
                 \cup {("user" :> user) @@ ("group" :> g) : g \in Groups \cup {""}}
    /\ context \in {EmptyDict}
                    \cup {("group" :> g) : g \in Groups \cup {NoneStr}}

NextTemplate == setup_template_variables

NextDatapusher == _submit_to_datapusher

NextLabels ==
    \/ get_dataset_labels
    \/ get_user_dataset_labels

\* A thread in reset_package_plugins or register_package_plugins, statement by
\* statement, and a thread that calls lookup_package_plugin.
NextConcurrent ==
    \/ begin_reset_package_plugins
    \/ end_reset_package_plugins
    \/ begin_register_package_plugins
    \/ register_package_fallback
    \/ register_package_type
    \/ end_register_package_plugins
    \/ lookup_package_plugin

\* The dataset axis alone, with up to MaxPlugins IDatasetForm plugins.
SpecPackage == InitPackage /\ [][NextPackage]_vars
\* The group axis alone, with up to MaxPlugins IGroupForm plugins.
SpecGroup == InitGroup /\ [][NextGroup]_vars
\* Either axis.  The functions of one axis leave the other axis alone (see
\* SpecBoth), so a behaviour here follows the calls on one axis.
Spec == Init /\ [][Next]_vars
\* Both axes interleaved, with up to MaxPlugins plugins in all: the writers.
SpecBoth == InitBoth /\ [][NextBoth]_vars
\* The two methods of DefaultPermissionLabels, on every dataset and actor.
SpecLabels == InitLabels /\ [][NextLabels]_vars
\* DefaultGroupForm.setup_template_variables on every request.
SpecTemplate == InitTemplate /\ [][NextTemplate]_vars
\* DatapusherPlugin._submit_to_datapusher on every resource, configuration
\* and answer of the action layer.
SpecDatapusher == InitLabels /\ [][NextDatapusher]_vars
\* The dataset axis with a reader beside the writer.
SpecConcurrent == InitPackage /\ [][NextConcurrent]_vars

----------------------------------------------------------------------------
(* Vocabulary of the claims *)

\* The step just taken is a call of op (a call that changes nothing at all,
\* its own record included, is no step).
Called(op) == last'.op = op

\* The type-strings the plugins of a list declare.
DeclaredBy(plugin) ==
    IF "package_types" \in DOMAIN plugin
    THEN {plugin.package_types[i] : i \in 1..Len(plugin.package_types)}
    ELSE {plugin.group_types[i] : i \in 1..Len(plugin.group_types)}

\* Some plugin of the list declares a type-string that the table already has
\* an owner for, or that a plugin earlier in the list declares too.
Overlap(table, impls) ==
    \E k \in 1..Len(impls) : \E t \in DeclaredBy(impls[k]) :
        \/ t \in DOMAIN table
        \/ \E j \in 1..(k - 1) : t \in DeclaredBy(impls[j])

\* Every row of the old table is a row of the new one.
RowsKept(old, new) ==
    \A t \in DOMAIN old : t \in DOMAIN new /\ new[t] = old[t]

\* An instance of cls that the registry constructed itself.
IsDefaultInstance(obj, cls) == obj # None /\ ~IsExtension(obj) /\ obj.base = cls

\* The axes of a process that has registered nothing yet.
VirginPackageReg ==
    [package_plugins |-> EmptyDict, default_package_plugin |-> None,
     raised |-> Returned]
VirginGroupReg ==
    [group_plugins |-> EmptyDict, default_group_plugin |-> None,
     default_organization_plugin |-> None, group_controllers |-> EmptyDict,
     raised |-> Returned]

\* What the lookups return in a registry whose axis is reg.
PackageLookupIn(reg, package_type) ==
    IF package_type # NoneStr /\ package_type \in DOMAIN reg.package_plugins
    THEN reg.package_plugins[package_type]
    ELSE reg.default_package_plugin
GroupLookupIn(reg, group_type) ==
    IF group_type # NoneStr /\ group_type \in DOMAIN reg.group_plugins
    THEN reg.group_plugins[group_type]
    ELSE IF group_type = "organization" THEN reg.default_organization_plugin
         ELSE reg.default_group_plugin
ControllerLookupIn(reg, group_type) ==
    IF group_type \in DOMAIN reg.group_controllers
    THEN reg.group_controllers[group_type]
    ELSE NoneStr

\* The same plugin, or two objects the registry built from the same class.
SameByKind(a, b) ==
    IF IsExtension(a) \/ IsExtension(b) THEN a = b ELSE a.base = b.base

\* The orders a list of n plugins can be loaded in, and a list in such an order.
Orders(n) == {p \in [1..n -> 1..n] : \A i, j \in 1..n : p[i] = p[j] => i = j}
Reordered(impls, p) == [i \in 1..Len(impls) |-> impls[p[i]]]

\* The first plugin of the list that declares type-string t.
FirstDeclaring(impls, t) ==
    impls[CHOOSE k \in 1..Len(impls) :
              /\ t \in DeclaredBy(impls[k])
              /\ \A j \in 1..(k - 1) : t \notin DeclaredBy(impls[j])]

\* Two lists of labels have a label in common.
ShareLabel(a, b) == Elements(a) \cap Elements(b) # {}

\* The dataset is public: active and not private.
IsPublic(dataset_obj) == dataset_obj.state = "active" /\ ~dataset_obj.private

\* The organizations the actor may read, the datasets the actor collaborates on.
ReadableOrgs(actor) ==
    {actor.organization_list_for_user[i].id :
         i \in 1..Len(actor.organization_list_for_user)}
CollaboratedDatasets(actor) ==
    {actor.package_collaborator_list_for_user[i].package_id :
         i \in 1..Len(actor.package_collaborator_list_for_user)}

\* The dataset is visible to the actor, by its fields and the actor's.
Visible(actor, dataset_obj) ==
    \/ IsPublic(dataset_obj)
    \/ /\ actor.user_obj # None
       /\ \/ /\ dataset_obj.owner_org # NoneStr
             /\ dataset_obj.owner_org \in ReadableOrgs(actor)
          \/ /\ dataset_obj.owner_org = NoneStr
             /\ dataset_obj.creator_user_id = actor.user_obj.id
          \/ /\ actor.allow_dataset_collaborators
             /\ dataset_obj.id \in CollaboratedDatasets(actor)

\* Every label that names an owner: an organization or a creator.
MemberLabels == {Label("member", o) : o \in OrgIds \cup {NoneStr}}
CreatorLabels == {Label("creator", u) : u \in UserIds \cup {NoneStr}}

----------------------------------------------------------------------------
(* Claims *)

C2_AllOrNothing ==
    [][/\ (Called("register_package_plugins") /\ last'.raised = Duplicate)
              => package_axis' = package_axis
       /\ (Called("register_group_plugins") /\ last'.raised = Duplicate)
              => group_axis' = group_axis
      ]_vars

\* A plugin claims a fallback slot.
ClaimsPackageFallback(plugin) == plugin.is_fallback
ClaimsGroupFallback(plugin) == plugin.is_fallback /\ ~IsOrganizationOf(plugin)
ClaimsOrganizationFallback(plugin) == plugin.is_fallback /\ IsOrganizationOf(plugin)

\* Two different plugins claim the same fallback slot.
TwoClaimPackageFallback ==
    \E j, k \in 1..Len(package_impls) :
        j # k /\ ClaimsPackageFallback(package_impls[j])
              /\ ClaimsPackageFallback(package_impls[k])
TwoClaimGroupFallback ==
    \E j, k \in 1..Len(group_impls) :
        j # k /\ ClaimsGroupFallback(group_impls[j])
              /\ ClaimsGroupFallback(group_impls[k])
TwoClaimOrganizationFallback ==
    \E j, k \in 1..Len(group_impls) :
        j # k /\ ClaimsOrganizationFallback(group_impls[j])
              /\ ClaimsOrganizationFallback(group_impls[k])

\* C3: a pass over plugins two of which claim the same fallback slot does not
\* return normally, and a fallback slot that holds a plugin keeps that plugin
\* until the axis is reset.
C3_OneFallbackPerSlot ==
    [][/\ Called("register_package_plugins")
             => /\ TwoClaimPackageFallback => last'.raised # Returned
                /\ IsExtension(_default_package_plugin)
                       => _default_package_plugin' = _default_package_plugin
       /\ Called("register_group_plugins")
             => /\ (TwoClaimGroupFallback \/ TwoClaimOrganizationFallback)
                       => last'.raised # Returned
                /\ IsExtension(_default_group_plugin)
                       => _default_group_plugin' = _default_group_plugin
                /\ IsExtension(_default_organization_plugin)
                       => _default_organization_plugin' = _default_organization_plugin
      ]_vars

\* C4: a fallback slot that no plugin claims holds, after a pass that returned
\* normally, an instance of the axis's Default*Form class, and lookup of None
\* returns it; while the axis is not reset, no lookup, no set_default_* call
\* and no further pass puts another object in the slot.
C4_DefaultBuiltOnce ==
    [][/\ ( /\ Called("register_package_plugins") /\ last'.raised = Returned
            /\ \A k \in 1..Len(package_impls) : ~ClaimsPackageFallback(package_impls[k]) )
          => IsDefaultInstance(_default_package_plugin', "DefaultDatasetForm")
       /\ ( /\ Called("register_group_plugins") /\ last'.raised = Returned
            /\ \A k \in 1..Len(group_impls) : ~ClaimsGroupFallback(group_impls[k]) )
          => IsDefaultInstance(_default_group_plugin', "DefaultGroupForm")
       /\ ( /\ IsDefaultInstance(_default_package_plugin, "DefaultDatasetForm")
            /\ ~Called("reset_package_plugins")
            /\ \A k \in 1..Len(package_impls) : ~ClaimsPackageFallback(package_impls[k]) )
          => /\ _default_package_plugin' = _default_package_plugin
             /\ (Called("lookup_package_plugin") /\ last'.arg = NoneStr)
                   => last'.ret = _default_package_plugin
       /\ ( /\ IsDefaultInstance(_default_group_plugin, "DefaultGroupForm")
            /\ ~Called("reset_group_plugins")
            /\ \A k \in 1..Len(group_impls) : ~ClaimsGroupFallback(group_impls[k]) )
          => /\ _default_group_plugin' = _default_group_plugin
             /\ (Called("lookup_group_plugin") /\ last'.arg = NoneStr)
                   => last'.ret = _default_group_plugin
      ]_vars

\* C4 witness: after a pass that registered a type and installed the default
\* dataset form, lookup_package_plugin(None) has returned the installed
\* instance.
C4_Witness ==
    /\ last.op = "lookup_package_plugin"
    /\ last.arg = NoneStr
    /\ IsDefaultInstance(last.ret, "DefaultDatasetForm")
    /\ last.ret = _default_package_plugin
    /\ _package_plugins # EmptyDict

\* C5: lookup_package_plugin(t) returns the plugin in the row of t when the
\* table has one, and the dataset fallback when t is None or has no row; what
\* it returns is the fallback or a plugin that declares t.
C5_LookupPackagePlugin ==
    last.op = "lookup_package_plugin" =>
        /\ last.arg \in DOMAIN _package_plugins
               => last.ret = _package_plugins[last.arg]
        /\ (last.arg = NoneStr \/ last.arg \notin DOMAIN _package_plugins)
               => last.ret = _default_package_plugin
        /\ last.ret # _default_package_plugin
               => IsExtension(last.ret) /\ last.arg \in DeclaredBy(last.ret)

\* C5 witness: the lookup of a registered type has returned its plugin, while
\* another plugin owns another type and neither is the fallback.
C5_Witness ==
    /\ last.op = "lookup_package_plugin"
    /\ DOMAIN _package_plugins = PackageTypes
    /\ last.arg = "dataset"
    /\ last.ret = _package_plugins["dataset"]
    /\ _package_plugins["experiment"] # last.ret
    /\ _default_package_plugin \notin {None, last.ret, _package_plugins["experiment"]}

\* C6 as stated: lookup_package_plugin and lookup_group_plugin never return
\* None, in any state of the registry.
C6_LookupNeverNone ==
    last.op \in {"lookup_package_plugin", "lookup_group_plugin"} => last.ret # None

\* The fallback slot lookup_group_plugin(group_type) falls back to.
GroupFallbackFor(group_type) ==
    IF group_type = "organization" THEN _default_organization_plugin
    ELSE _default_group_plugin

\* C6 amended: a pass that returns normally and a set_default_* call leave the
\* fallback slots of their axis set, and a set slot stays set until its axis
\* is reset; a lookup returns None exactly when its argument has no row and
\* the slot it falls back to is unset, and it installs nothing.
C6_LookupReturnsProviderOnceFallbackSet ==
    [][/\ ( \/ Called("register_package_plugins") /\ last'.raised = Returned
            \/ Called("set_default_package_plugin") )
          => _default_package_plugin' # None
       /\ ( \/ Called("register_group_plugins") /\ last'.raised = Returned
            \/ Called("set_default_group_plugin") )
          => _default_group_plugin' # None /\ _default_organization_plugin' # None
       /\ (_default_package_plugin # None /\ ~Called("reset_package_plugins"))
          => _default_package_plugin' # None
       /\ (_default_group_plugin # None /\ ~Called("reset_group_plugins"))
          => _default_group_plugin' # None
       /\ (_default_organization_plugin # None /\ ~Called("reset_group_plugins"))
          => _default_organization_plugin' # None
       /\ Called("lookup_package_plugin")
          => /\ registry' = registry
             /\ last'.ret = None
                <=> /\ last'.arg \notin DOMAIN _package_plugins
                    /\ _default_package_plugin = None
       /\ Called("lookup_group_plugin")
          => /\ registry' = registry
             /\ last'.ret = None
                <=> /\ last'.arg \notin DOMAIN _group_plugins
                    /\ GroupFallbackFor(last'.arg) = None
      ]_vars

\* C6 witness: after registration the lookup of a group type nobody registered
\* has returned the default group form.
C6_Witness ==
    /\ last.op = "lookup_group_plugin"
    /\ last.arg = "team"
    /\ "team" \notin DOMAIN _group_plugins
    /\ _group_plugins # EmptyDict
    /\ IsDefaultInstance(last.ret, "DefaultGroupForm")

\* C7: while the group table has no row for "organization",
\* lookup_group_plugin("organization") returns the organization fallback, which,
\* once set, is not the group fallback.
C7_OrganizationRoutesToOrganizationFallback ==
    ( /\ last.op = "lookup_group_plugin"
      /\ last.arg = "organization"
      /\ "organization" \notin DOMAIN _group_plugins )
    => /\ last.ret = _default_organization_plugin
       /\ _default_organization_plugin # None => last.ret # _default_group_plugin

\* C7 witness: a plugin is the group fallback, nobody registered "organization",
\* and the lookup of "organization" has returned the default organization form.
C7_Witness ==
    /\ last.op = "lookup_group_plugin"
    /\ last.arg = "organization"
    /\ "organization" \notin DOMAIN _group_plugins
    /\ IsExtension(_default_group_plugin)
    /\ IsDefaultInstance(last.ret, "DefaultOrganizationForm")

\* C8: lookup_group_plugin(None) returns the group fallback; for a type other
\* than "organization" without a row it returns the group fallback, which, once
\* set, is not the organization fallback; for a type with a row it returns the
\* plugin of the row.
C8_LookupGroupPlugin ==
    last.op = "lookup_group_plugin" =>
        /\ last.arg = NoneStr => last.ret = _default_group_plugin
        /\ (last.arg # "organization" /\ last.arg \notin DOMAIN _group_plugins)
               => /\ last.ret = _default_group_plugin
                  /\ _default_group_plugin # None
                         => last.ret # _default_organization_plugin
        /\ last.arg \in DOMAIN _group_plugins
               => last.ret = _group_plugins[last.arg]

\* C8 witness: a plugin is the organization fallback, "team" has no row, and
\* the lookup of "team" has returned the group fallback.
C8_Witness ==
    /\ last.op = "lookup_group_plugin"
    /\ last.arg = "team"
    /\ "team" \notin DOMAIN _group_plugins
    /\ IsExtension(_default_organization_plugin)
    /\ _default_group_plugin # None
    /\ last.ret = _default_group_plugin

\* C9 as stated: lookup_group_controller(t) returns the controller name of the
\* plugin that registered t, and None for a type without a row.
C9_NoControllerUnlessRegistered ==
    last.op = "lookup_group_controller" =>
        last.ret = IF last.arg \in DOMAIN _group_plugins
                   THEN GroupControllerOf(_group_plugins[last.arg])
                   ELSE NoneStr

\* The types set_default_group_plugin gives a controller name of their own.
DefaultControllerTypes == {"group", "organization"}

\* C9 amended: lookup_group_controller(t) returns the controller name of the
\* plugin that registered t; for a type without a row it returns None, except
\* that for "group" and "organization" it returns the type's own name from the
\* first set_default_group_plugin call, or pass that returned normally, after
\* the last reset_group_plugins.
C9_ControllerOfRegisteredOrDefault ==
    [][/\ Called("lookup_group_controller")
          => /\ last'.arg \in DOMAIN _group_plugins
                    => last'.ret = GroupControllerOf(_group_plugins[last'.arg])
             /\ ( /\ last'.arg \notin DOMAIN _group_plugins
                  /\ last'.arg \notin DefaultControllerTypes )
                    => last'.ret = NoneStr
             /\ ( /\ last'.arg \notin DOMAIN _group_plugins
                  /\ last'.arg \in DefaultControllerTypes )
                    => /\ last'.ret \in {NoneStr, last'.arg}
                       /\ last'.ret = last'.arg
                          <=> last'.arg \in DOMAIN _group_controllers
       /\ ( \/ Called("register_group_plugins") /\ last'.raised = Returned
            \/ Called("set_default_group_plugin") )
          => DefaultControllerTypes \subseteq DOMAIN _group_controllers'
       /\ ~Called("reset_group_plugins")
          => \A t \in DefaultControllerTypes :
                 t \in DOMAIN _group_controllers => t \in DOMAIN _group_controllers'
       /\ Called("reset_group_plugins") => _group_controllers' = EmptyDict
      ]_vars

\* C9 witness: no plugin registered "group", and lookup_group_controller("group")
\* has returned the default name; a plugin built from object registered
\* "organization", whose controller name is therefore not "organization".
C9_Witness ==
    /\ last.op = "lookup_group_controller"
    /\ last.arg = "group"
    /\ "group" \notin DOMAIN _group_plugins
    /\ last.ret = "group"
    /\ "organization" \in DOMAIN _group_plugins
    /\ _group_controllers["organization"] = "group"

\* C10 as stated: after either reset function every table of the registry is
\* empty and every fallback slot is unset.
C10_ResetClearsWholeRegistry ==
    last.op \in {"reset_package_plugins", "reset_group_plugins"} =>
        /\ _package_plugins = EmptyDict /\ _default_package_plugin = None
        /\ _group_plugins = EmptyDict /\ _group_controllers = EmptyDict
        /\ _default_group_plugin = None /\ _default_organization_plugin = None

\* C10 amended: reset_package_plugins empties the dataset table and unsets the
\* dataset fallback, reset_group_plugins empties the group table and the
\* controller table and unsets the group and organization fallbacks, and each
\* leaves the other axis as it was.
C10_ResetClearsItsAxis ==
    [][/\ Called("reset_package_plugins")
          => /\ _package_plugins' = EmptyDict /\ _default_package_plugin' = None
             /\ group_axis' = group_axis
       /\ Called("reset_group_plugins")
          => /\ _group_plugins' = EmptyDict /\ _group_controllers' = EmptyDict
             /\ _default_group_plugin' = None /\ _default_organization_plugin' = None
             /\ package_axis' = package_axis
      ]_vars

\* C10 witness: reset_package_plugins has run and the group axis is still
\* populated: a row, its controller name and both fallbacks.
C10_Witness ==
    /\ last.op = "reset_package_plugins"
    /\ _package_plugins = EmptyDict /\ _default_package_plugin = None
    /\ _group_plugins # EmptyDict /\ _group_controllers # EmptyDict
    /\ _default_group_plugin # None /\ _default_organization_plugin # None

\* C11: when the pass over the loaded plugins returns normally in a process
\* that has registered nothing yet, the same pass made right after the reset of
\* its axis, whatever calls came before the reset, returns normally too, and
\* every lookup_package_plugin, lookup_group_plugin and lookup_group_controller
\* query then returns what it returns in that first process (an instance the
\* registry built itself being compared by its class).
C11_ResetThenRegisterAsVirgin ==
    [][/\ ( /\ Called("register_package_plugins")
            /\ last.op = "reset_package_plugins"
            /\ RegisterPackagePlugins(VirginPackageReg, package_impls).raised
                   = Returned )
          => /\ last'.raised = Returned
             /\ \A t \in PackageTypeArgs :
                    SameByKind(LookupPackagePlugin(t)',
                               PackageLookupIn(RegisterPackagePlugins(
                                   VirginPackageReg, package_impls), t))
       /\ ( /\ Called("register_group_plugins")
            /\ last.op = "reset_group_plugins"
            /\ RegisterGroupPlugins(VirginGroupReg, group_impls).raised = Returned )
          => /\ last'.raised = Returned
             /\ \A t \in GroupTypeArgs :
                    /\ SameByKind(LookupGroupPlugin(t)',
                                  GroupLookupIn(RegisterGroupPlugins(
                                      VirginGroupReg, group_impls), t))
                    /\ LookupGroupController(t)'
                          = ControllerLookupIn(RegisterGroupPlugins(
                                VirginGroupReg, group_impls), t)
      ]_vars

\* C11 witness: a pass over two plugins has returned normally, with a row for
\* each of them and the default dataset form as the fallback, as it does in a
\* process that registers them for the first time.
C11_Witness ==
    /\ last.op = "register_package_plugins"
    /\ last.raised = Returned
    /\ DOMAIN _package_plugins = PackageTypes
    /\ _package_plugins["dataset"] # _package_plugins["experiment"]
    /\ IsDefaultInstance(_default_package_plugin, "DefaultDatasetForm")
    /\ \A t \in PackageTypeArgs :
           SameByKind(LookupPackagePlugin(t),
                      PackageLookupIn(RegisterPackagePlugins(
                          VirginPackageReg, package_impls), t))

\* C12: a row of the dataset table, and a row of the group table, keeps its
\* plugin through every call that is not the reset of its axis: passes that
\* return normally, passes that raise, set_default_* calls and lookups.
C12_RowImmutableBetweenResets ==
    [][/\ ~Called("reset_package_plugins")
          => RowsKept(_package_plugins, _package_plugins')
       /\ ~Called("reset_group_plugins")
          => RowsKept(_group_plugins, _group_plugins')
      ]_vars

\* C12 witness: two plugins own a type-string each from a pass that returned
\* normally, and a second pass, which raised the duplicate error, has left
\* both rows with their plugins.
C12_Witness ==
    /\ last.op = "register_package_plugins"
    /\ last.raised = Duplicate
    /\ Len(package_impls) = 2
    /\ DOMAIN _package_plugins = PackageTypes
    /\ DeclaredBy(package_impls[1]) = {"dataset"}
    /\ DeclaredBy(package_impls[2]) = {"experiment"}
    /\ _package_plugins["dataset"] = package_impls[1]
    /\ _package_plugins["experiment"] = package_impls[2]

\* C13: when a pass returns normally, the pass over the same plugins in any
\* other order, made in the same registry, either raises or leaves the same
\* type tables, the same controller table and the same fallback slots.
C13_OrderIndependent ==
    [][/\ (Called("register_package_plugins") /\ last'.raised = Returned)
          => \A p \in Orders(Len(package_impls)) :
                LET other == RegisterPackagePlugins(
                                 PackageReg, Reordered(package_impls, p))
                IN  other.raised = Returned
                    => /\ other.package_plugins = _package_plugins'
                       /\ SameByKind(other.default_package_plugin,
                                     _default_package_plugin')
       /\ (Called("register_group_plugins") /\ last'.raised = Returned)
          => \A p \in Orders(Len(group_impls)) :
                LET other == RegisterGroupPlugins(
                                 GroupReg, Reordered(group_impls, p))
                IN  other.raised = Returned
                    => /\ other.group_plugins = _group_plugins'
                       /\ other.group_controllers = _group_controllers'
                       /\ SameByKind(other.default_group_plugin,
                                     _default_group_plugin')
                       /\ SameByKind(other.default_organization_plugin,
                                     _default_organization_plugin')
      ]_vars

C15_FallbackSlotByOrganizationFlag ==
    [][Called("register_group_plugins") =>
          /\ ( /\ IsExtension(_default_organization_plugin')
               /\ _default_organization_plugin' # _default_organization_plugin )
             => ClaimsOrganizationFallback(_default_organization_plugin')
          /\ ( /\ IsExtension(_default_group_plugin')
               /\ _default_group_plugin' # _default_group_plugin )
             => ClaimsGroupFallback(_default_group_plugin')
          /\ last'.raised = Returned
             => /\ (\E k \in 1..Len(group_impls) :
                        ClaimsOrganizationFallback(group_impls[k]))
                   => /\ IsExtension(_default_organization_plugin')
                      /\ ClaimsOrganizationFallback(_default_organization_plugin')
                /\ (\E k \in 1..Len(group_impls) :
                        ClaimsGroupFallback(group_impls[k]))
                   => /\ IsExtension(_default_group_plugin')
                      /\ ClaimsGroupFallback(_default_group_plugin')
          /\ ( /\ _default_group_plugin = None
               /\ _default_organization_plugin = None
               /\ ~TwoClaimGroupFallback /\ ~TwoClaimOrganizationFallback )
             => /\ last'.raised # MultipleFallback
                /\ \A k \in 1..Len(group_impls) :
                       /\ ( /\ ClaimsOrganizationFallback(group_impls[k])
                            /\ last'.raised = Returned )
                          => _default_organization_plugin' = group_impls[k]
                       /\ ( /\ ClaimsGroupFallback(group_impls[k])
                            /\ last'.raised = Returned )
                          => _default_group_plugin' = group_impls[k]
      ]_vars

\* C15 witness: one pass has put two plugins built from DefaultOrganizationForm
\* in the two slots: the one whose is_organization attribute is False in the
\* group slot, the one without the attribute in the organization slot.
C15_Witness ==
    /\ last.op = "register_group_plugins"
    /\ last.raised = Returned
    /\ IsExtension(_default_group_plugin)
    /\ IsExtension(_default_organization_plugin)
    /\ _default_group_plugin.base = "DefaultOrganizationForm"
    /\ hasattr(_default_group_plugin, "is_organization")
    /\ ~_default_group_plugin.is_organization
    /\ _default_organization_plugin.base = "DefaultOrganizationForm"
    /\ ~hasattr(_default_organization_plugin, "is_organization")

\* C16: under one setting of allow_dataset_collaborators, the labels
\* get_dataset_labels gives a dataset and the labels get_user_dataset_labels
\* gives an actor have a label in common exactly when the dataset is visible
\* to the actor: it is active and not private, or the actor may read its owner
\* organization, or it has no owner organization and the actor created it, or
\* collaborators are allowed and the actor collaborates on it.
C16_LabelsShareIffVisible ==
    /\ last.op = "get_dataset_labels"
       => \A actor \in Actors :
              actor.allow_dataset_collaborators = last.arg.allow_dataset_collaborators
              => ( ShareLabel(last.ret, GetUserDatasetLabels(actor))
                   <=> Visible(actor, last.arg.dataset_obj) )
    /\ last.op = "get_user_dataset_labels"
       => \A dataset_obj \in DatasetObjects :
              ShareLabel(GetDatasetLabels(dataset_obj,
                                          last.arg.allow_dataset_collaborators),
                         last.ret)
              <=> Visible(last.arg, dataset_obj)

\* C16 witness: the labels of a user who may read one organization and
\* collaborates on one dataset, collaborators being allowed; the private
\* datasets of that organization and the dataset collaborated on are visible
\* to the user, a private dataset of the other organization is not.
C16_Witness ==
    /\ last.op = "get_user_dataset_labels"
    /\ last.arg.user_obj = [id |-> "u1"]
    /\ last.arg.allow_dataset_collaborators
    /\ ReadableOrgs(last.arg) = {"o1"}
    /\ CollaboratedDatasets(last.arg) = {"d2"}
    /\ Elements(last.ret) = {"public", "creator-u1", "member-o1", "collaborator-d2"}
    /\ \E dataset_obj \in DatasetObjects :
           /\ ~IsPublic(dataset_obj) /\ dataset_obj.owner_org = "o2"
           /\ dataset_obj.id = "d1"
           /\ ~ShareLabel(GetDatasetLabels(dataset_obj, TRUE), last.ret)

\* C17: get_dataset_labels returns the list ['public'] for every active
\* dataset that is not private, whatever its owner organization, its creator
\* and the collaborator setting; get_user_dataset_labels returns ['public']
\* for the anonymous user; and every actor's labels share a label with those of
\* such a dataset.
C17_PublicDatasetSeenByAll ==
    /\ (last.op = "get_dataset_labels" /\ IsPublic(last.arg.dataset_obj))
       => /\ last.ret = <<"public">>
          /\ \A actor \in Actors : ShareLabel(last.ret, GetUserDatasetLabels(actor))
    /\ (last.op = "get_user_dataset_labels" /\ last.arg.user_obj = None)
       => last.ret = <<"public">>
    /\ last.op = "get_user_dataset_labels"
       => \A dataset_obj \in DatasetObjects : \A allow \in BOOLEAN :
              IsPublic(dataset_obj)
              => ShareLabel(GetDatasetLabels(dataset_obj, allow), last.ret)

\* C17 witness: the labels of an active, not private dataset that has an owner
\* organization and a creator, collaborators being allowed.
C17_Witness ==
    /\ last.op = "get_dataset_labels"
    /\ IsPublic(last.arg.dataset_obj)
    /\ last.arg.dataset_obj.owner_org = "o1"
    /\ last.arg.dataset_obj.creator_user_id = "u1"
    /\ last.arg.allow_dataset_collaborators
    /\ last.ret = <<"public">>

\* C18: for a dataset that is not both active and not private,
\* get_dataset_labels returns no "public" label and exactly one label that
\* names an owner: "member-<owner_org>" when the dataset has an owner
\* organization, "creator-<creator_user_id>" when it has none.  So, when
\* collaborators are not allowed, the labels of the creator of a dataset with
\* an owner organization share no label with the dataset's unless the creator
\* may read that organization.
C18_OneOwnerLabel ==
    (last.op = "get_dataset_labels" /\ ~IsPublic(last.arg.dataset_obj))
    => LET dataset_obj == last.arg.dataset_obj IN
       /\ "public" \notin Elements(last.ret)
       /\ Elements(last.ret) \cap (MemberLabels \cup CreatorLabels)
              = IF dataset_obj.owner_org # NoneStr
                THEN {Label("member", dataset_obj.owner_org)}
                ELSE {Label("creator", dataset_obj.creator_user_id)}
       /\ ( /\ dataset_obj.owner_org # NoneStr
            /\ ~last.arg.allow_dataset_collaborators )
          => \A actor \in Actors :
                 ( /\ actor.user_obj # None
                   /\ actor.user_obj.id = dataset_obj.creator_user_id
                   /\ ~actor.allow_dataset_collaborators
                   /\ dataset_obj.owner_org \notin ReadableOrgs(actor) )
                 => ~ShareLabel(last.ret, GetUserDatasetLabels(actor))

\* C18 witness: the labels of a private dataset of organization o1 that user
\* u1 created, collaborators not being allowed: the member label alone.
C18_Witness ==
    /\ last.op = "get_dataset_labels"
    /\ last.arg.dataset_obj.private
    /\ last.arg.dataset_obj.owner_org = "o1"
    /\ last.arg.dataset_obj.creator_user_id = "u1"
    /\ ~last.arg.allow_dataset_collaborators
    /\ last.ret = <<"member-o1">>

\* C19: get_user_dataset_labels always returns "public"; for the anonymous
\* user it returns ['public'] and asks the action layer nothing; for a user
\* it returns "public", "creator-<id>", "member-<org>" for every organization
\* organization_list_for_user answers, and, exactly when collaborators are
\* allowed, "collaborator-<dataset>" for every dataset
\* package_collaborator_list_for_user answers, which it asks for only then.
C19_UserLabels ==
    last.op = "get_user_dataset_labels"
    => LET actor == last.arg IN
       /\ "public" \in Elements(last.ret)
       /\ actor.user_obj = None
          => last.ret = <<"public">> /\ last.queried = {}
       /\ actor.user_obj # None
          => /\ Elements(last.ret)
                   = {"public", Label("creator", actor.user_obj.id)}
                     \cup {Label("member", o) : o \in ReadableOrgs(actor)}
                     \cup (IF actor.allow_dataset_collaborators
                           THEN {Label("collaborator", d) :
                                     d \in CollaboratedDatasets(actor)}
                           ELSE {})
             /\ "organization_list_for_user" \in last.queried
             /\ "package_collaborator_list_for_user" \in last.queried
                    <=> actor.allow_dataset_collaborators

\* C19 witness: the labels of a user who may read two organizations and
\* collaborates on a dataset, collaborators not being allowed: no collaborator
\* label.
C19_Witness ==
    /\ last.op = "get_user_dataset_labels"
    /\ last.arg.user_obj = [id |-> "u2"]
    /\ ~last.arg.allow_dataset_collaborators
    /\ ReadableOrgs(last.arg) = OrgIds
    /\ CollaboratedDatasets(last.arg) = {"d1"}
    /\ Elements(last.ret) = {"public", "creator-u2", "member-o1", "member-o2"}

\* C20: DefaultGroupForm.setup_template_variables returns normally whatever
\* check_access does.  When a group is available, in the context or else in the
\* request global, c.auth_for_change_state is False after a check that raised
\* NotAuthorized and True after a check that passed, and in both cases
\* context['group'] is the group: the one of the context when it had one,
\* else the one of the request global.
C20_NotAuthorizedBecomesFlag ==
    [][Called("setup_template_variables") =>
          /\ last'.raised = Returned
          /\ GroupAvailable
             => /\ last'.arg \in {Passes, NotAuthorized}
                /\ "auth_for_change_state" \in DOMAIN c'
                /\ c'["auth_for_change_state"] = (last'.arg = Passes)
                /\ "group" \in DOMAIN context'
                /\ context'["group"]
                       = IF Truthy(getattr(context, "group", NoneStr))
                         THEN context["group"] ELSE c["group"]
      ]_vars

\* C20 witness: check_access has raised NotAuthorized in the request of user
\* u1; the call has returned normally, the flag is False and the group of the
\* request global is the group in the context.
C20_Witness ==
    /\ last.op = "setup_template_variables"
    /\ last.arg = NotAuthorized
    /\ last.raised = Returned
    /\ "auth_for_change_state" \in DOMAIN c
    /\ c["auth_for_change_state"] = FALSE
    /\ c["user"] = "u1"
    /\ getattr(c, "group", "") = "g2"
    /\ getattr(context, "group", NoneStr) = "g2"

\* C21: lookup_package_plugin, lookup_group_plugin, lookup_group_controller
\* and lookup_group_blueprints change no table and no fallback slot, whatever
\* their argument and whatever the registry holds.
C21_LookupsReadOnly ==
    [][( \/ Called("lookup_package_plugin")
         \/ Called("lookup_group_plugin")
         \/ Called("lookup_group_controller")
         \/ Called("lookup_group_blueprints") )
       => /\ registry' = registry
          /\ _group_blueprints' = _group_blueprints
      ]_vars

\* C21 witness: with two plugins loaded, a lookup of the fallback has
\* returned None, and the fallback is unset and the table empty still.
C21_Witness ==
    /\ last.op = "lookup_package_plugin"
    /\ last.arg = NoneStr
    /\ last.ret = None
    /\ _default_package_plugin = None
    /\ _package_plugins = EmptyDict
    /\ Len(package_impls) = 2

\* C22: a lookup_package_plugin call made while another thread is in
\* reset_package_plugins or in register_package_plugins finds the table and
\* the fallback slot either both as they were when that call began or both as
\* they are when it ends.
C22_ReaderSeesPreOrPost ==
    [][(Called("lookup_package_plugin") /\ writer # Idle) =>
          LET after == IF writer.at = "reset" THEN VirginPackageReg
                       ELSE RegisterPackagePlugins(writer.before, package_impls)
          IN  \/ /\ _package_plugins = writer.before.package_plugins
                 /\ _default_package_plugin = writer.before.default_package_plugin
              \/ /\ _package_plugins = after.package_plugins
                 /\ SameByKind(_default_package_plugin,
                               after.default_package_plugin)
      ]_vars

\* C23: _submit_to_datapusher calls datapusher_submit exactly when the format
\* of the resource, in lower case, is one of the configured formats, its
\* url_type is not 'datapusher', and task_status_show raises ObjectNotFound or
\* returns a task whose state is neither 'pending' nor 'submitting'; it asks
\* for the task only of a resource it may submit; and it returns normally,
\* also when datapusher_submit raises ValidationError.
C23_SubmitUnlessPending ==
    last.op = "_submit_to_datapusher" =>
        LET resource_dict == last.arg.resource_dict
            task == last.arg.task_status_show
            eligible == /\ resource_dict.format \notin {NoneStr, ""}
                        /\ Lower(resource_dict.format) \in last.arg.datapusher_formats
                        /\ resource_dict.url_type # "datapusher"
            busy == /\ task # ObjectNotFound
                    /\ "state" \in DOMAIN task
                    /\ task.state \in {"pending", "submitting"}
        IN  /\ "datapusher_submit" \in last.queried <=> (eligible /\ ~busy)
            /\ "task_status_show" \in last.queried <=> eligible
            /\ last.raised = Returned

\* C23 witness: the resource's format is 'CSV', csv is configured, the last
\* task of the resource is complete, and datapusher_submit, called, has
\* raised ValidationError; the call has returned normally.
C23_Witness ==
    /\ last.op = "_submit_to_datapusher"
    /\ last.arg.resource_dict.format = "CSV"
    /\ last.arg.datapusher_formats = {"csv"}
    /\ last.arg.task_status_show = [state |-> "complete"]
    /\ last.arg.datapusher_submit = ValidationError
    /\ "datapusher_submit" \in last.queried
    /\ last.raised = Returned

\* Some plugin of the list declares a type-string.
SomeDeclares(impls) == \E k \in 1..Len(impls) : DeclaredBy(impls[k]) # {}

\* C24: a registration pass that directly follows a pass of the same axis
\* that returned normally, over plugins one of which declares a type-string,
\* raises a registration error and leaves the type table and the fallback
\* slots of the axis as the first pass left them.
C24_SecondPassFailsStateKept ==
    [][/\ ( /\ Called("register_package_plugins")
            /\ last.op = "register_package_plugins" /\ last.raised = Returned
            /\ SomeDeclares(package_impls) )
              => /\ last'.raised \in {Duplicate, MultipleFallback}
                 /\ _package_plugins' = _package_plugins
                 /\ _default_package_plugin' = _default_package_plugin
       /\ ( /\ Called("register_group_plugins")
            /\ last.op = "register_group_plugins" /\ last.raised = Returned
            /\ SomeDeclares(group_impls) )
              => /\ last'.raised \in {Duplicate, MultipleFallback}
                 /\ _group_plugins' = _group_plugins
                 /\ _default_group_plugin' = _default_group_plugin
                 /\ _default_organization_plugin' = _default_organization_plugin
      ]_vars

\* C25: every type-string that has a row in the group table has one in the
\* controller table, in every state; after a register_group_plugins pass that
\* returned normally both group fallback slots are set, the controller table
\* has rows for "group" and "organization", and where a plugin registered one
\* of those two types the row holds that plugin's controller name.
C25_GroupAxisComplete ==
    /\ [](DOMAIN _group_plugins \subseteq DOMAIN _group_controllers)
    /\ [][(Called("register_group_plugins") /\ last'.raised = Returned)
             => /\ _default_group_plugin' # None
                /\ _default_organization_plugin' # None
                /\ DefaultControllerTypes \subseteq DOMAIN _group_controllers'
                /\ \A t \in DefaultControllerTypes \cap DOMAIN _group_plugins' :
                       _group_controllers'[t] = GroupControllerOf(_group_plugins'[t])
         ]_vars

\* C25 witness: a pass has returned normally in which a plugin built from
\* object registered "organization"; its controller name "group" is the row
\* of "organization", and "group", which no plugin registered, has its row.
C25_Witness ==
    /\ last.op = "register_group_plugins" /\ last.raised = Returned
    /\ "organization" \in DOMAIN _group_plugins
    /\ IsExtension(_group_plugins["organization"])
    /\ _group_controllers["organization"] = "group"
    /\ "group" \notin DOMAIN _group_plugins
    /\ _group_controllers["group"] = "group"
    /\ _default_group_plugin # None /\ _default_organization_plugin # None

====
